---- MODULE Spec2Model ----
(***************************************************************************)
(* Model of simple_search.py: CSV import with value normalisation, query   *)
(* construction for the search backend, deletion, similarity search and    *)
(* the results table of the GUI.                                           *)
(*                                                                         *)
(* Strings are sequences of one-character strings, so that str.strip(),    *)
(* str.lower() and int() are computed and not assumed.                     *)
(***************************************************************************)
EXTENDS Integers, Sequences, FiniteSets, TLC

\* ------------------------------------------------------------------------
\* Bounds of the model
\* ------------------------------------------------------------------------

\* longest run of whitespace put around a string value
MaxPad == 1

\* number of documents the index may ever be given in the GUI specification
\* (caps the id counter)
MaxDocs == 2

\* number of documents the index may ever be given in the import
\* specification
MaxImported == 3

\* longest CSV file, in rows
MaxRows == 3

\* ------------------------------------------------------------------------
\* Characters and strings
\* ------------------------------------------------------------------------

\* the characters str.strip() removes (the ones the model's strings use)
Whitespace == {" ", "\t"}

\* str.lower() on one character
LowerChar(c) ==
    CASE c = "N" -> "n"
      [] c = "A" -> "a"
      [] c = "U" -> "u"
      [] c = "L" -> "l"
      [] c = "O" -> "o"
      [] c = "E" -> "e"
      [] c = "C" -> "c"
      [] c = "T" -> "t"
      [] OTHER -> c

\* str.lower()
Lower(s) == [i \in 1..Len(s) |-> LowerChar(s[i])]

RECURSIVE LStrip(_)
\* str.lstrip()
LStrip(s) ==
    IF s /= <<>> /\ Head(s) \in Whitespace THEN LStrip(Tail(s)) ELSE s

RECURSIVE RStrip(_)
\* str.rstrip()
RStrip(s) ==
    IF s /= <<>> /\ s[Len(s)] \in Whitespace
    THEN RStrip(SubSeq(s, 1, Len(s) - 1))
    ELSE s

\* str.strip()
Strip(s) == RStrip(LStrip(s))

\* ------------------------------------------------------------------------
\* Python values: None, float, int, bool, str
\* ------------------------------------------------------------------------

None == [t |-> "none", s |-> <<>>, n |-> 0, f |-> "-"]

PyStr(s) == [t |-> "str", s |-> s, n |-> 0, f |-> "-"]

PyInt(n) == [t |-> "int", s |-> <<>>, n |-> n, f |-> "-"]

PyBool(n) == [t |-> "bool", s |-> <<>>, n |-> n, f |-> "-"]

\* a float: f is its class ("nan", "inf", "-inf" or "finite"), n its value
\* when finite
PyFloat(f, n) == [t |-> "float", s |-> <<>>, n |-> n, f |-> f]

\* math.isnan(value) or math.isinf(value)
IsNanOrInf(v) == v.f \in {"nan", "inf", "-inf"}

\* the list of line 31
MissingTokens ==
    { <<"n", "a", "n">>, <<"n", "u", "l", "l">>, <<"n", "o", "n", "e">>,
      <<"n", "/", "a">>, <<"n", "a">>, <<>> }

\* clean_value with the strip() of line 30 left out
clean_value_nostrip(value) ==
    IF value.t = "none" THEN None
    ELSE IF value.t = "float" /\ IsNanOrInf(value) THEN None
    ELSE IF value.t = "str" /\ Lower(value.s) \in MissingTokens THEN None
    ELSE value

\* clean_value
clean_value(value) ==
    IF value.t = "none" THEN None
    ELSE IF value.t = "float" /\ IsNanOrInf(value) THEN None
    ELSE IF value.t = "str" /\ Lower(Strip(value.s)) \in MissingTokens THEN None
    ELSE value

\* clean_document: the same keys, every value through clean_value
clean_document(doc) == [k \in DOMAIN doc |-> clean_value(doc[k])]

\* ------------------------------------------------------------------------
\* The values the model feeds to clean_value
\* ------------------------------------------------------------------------

\* all sequences over S of length at most n
SeqsUpTo(S, n) == UNION { [1..k -> S] : k \in 0..n }

Pads == SeqsUpTo(Whitespace, MaxPad)

\* the placeholder words in several spellings, and strings that are none
Cores ==
    { <<>>,
      <<"n", "a", "n">>, <<"N", "a", "N">>, <<"N", "A", "N">>,
      <<"n", "u", "l", "l">>, <<"N", "U", "L", "L">>,
      <<"n", "o", "n", "e">>, <<"N", "o", "n", "e">>,
      <<"n", "/", "a">>, <<"N", "/", "A">>,
      <<"n", "a">>, <<"N", "A">>,
      <<"n", " ", "a">>, <<"n", "a", "n", "a">>, <<"n", "/">>,
      <<"n", "a", " ", "x">>, <<"x", " ", "n", "a">>,
      <<"c", "a", "t">>, <<"C", "a", "t">>, <<"0">>, <<"1", "2">> }

Strings == { l \o c \o r : l \in Pads, c \in Cores, r \in Pads }

Values ==
    {None}
    \cup { PyStr(s) : s \in Strings }
    \cup { PyFloat(f, 0) : f \in {"nan", "inf", "-inf"} }
    \cup { PyFloat("finite", n) : n \in {-1, 0, 15} }
    \cup { PyInt(n) : n \in {-1, 0, 12} }
    \cup { PyBool(n) : n \in {0, 1} }

\* ------------------------------------------------------------------------
\* int(): the conversion of the text of an entry field
\* ------------------------------------------------------------------------

Digits == {"0", "1", "2", "5", "9"}

DigitVal(c) ==
    CASE c = "0" -> 0
      [] c = "1" -> 1
      [] c = "2" -> 2
      [] c = "5" -> 5
      [] c = "9" -> 9
      [] OTHER -> 0

RECURSIVE DigitsVal(_)
\* the number a run of decimal digits denotes
DigitsVal(ds) ==
    IF ds = <<>> THEN 0
    ELSE 10 * DigitsVal(SubSeq(ds, 1, Len(ds) - 1)) + DigitVal(ds[Len(ds)])

\* int(text): surrounding whitespace and one sign are accepted; anything
\* else but digits raises ValueError (ok = FALSE)
int(text) ==
    LET t == Strip(text)
        signed == t /= <<>> /\ Head(t) \in {"+", "-"}
        ds == IF signed THEN Tail(t) ELSE t
        good == ds /= <<>> /\ \A i \in 1..Len(ds) : ds[i] \in Digits
    IN  [ ok |-> good,
          n |-> IF ~good THEN 0
                ELSE IF signed /\ Head(t) = "-" THEN 0 - DigitsVal(ds)
                ELSE DigitsVal(ds) ]

\* ------------------------------------------------------------------------
\* search_posts: the request body
\* ------------------------------------------------------------------------

index_name == "posts"

\* a dict with the keys gte and lte, each present when its flag is set
RangeDict(hasLow, low, hasHigh, high) ==
    [ b \in (IF hasLow THEN {"gte"} ELSE {}) \cup (IF hasHigh THEN {"lte"} ELSE {})
        |-> IF b = "gte" THEN low ELSE high ]

\* lines 109-115 with the test of line 109 reading "min_likes and max_likes"
likes_filter_both(min_likes, max_likes) ==
    IF min_likes /= <<>> /\ max_likes /= <<>>
    THEN << [ range |-> [ num_reactions |->
                RangeDict(TRUE, int(min_likes).n, TRUE, int(max_likes).n) ] ] >>
    ELSE <<>>

\* lines 109-115: the range clause on num_reactions
likes_filter(min_likes, max_likes) ==
    IF min_likes /= <<>> \/ max_likes /= <<>>
    THEN << [ range |-> [ num_reactions |->
                RangeDict(min_likes /= <<>>, int(min_likes).n,
                          max_likes /= <<>>, int(max_likes).n) ] ] >>
    ELSE <<>>

\* lines 117-123: the range clause on status_published
date_filter(date_from, date_to) ==
    IF date_from /= <<>> \/ date_to /= <<>>
    THEN << [ range |-> [ status_published |->
                RangeDict(date_from /= <<>>, date_from,
                          date_to /= <<>>, date_to) ] ] >>
    ELSE <<>>

\* lines 101-107 without the strip() of line 101
must_clauses_nostrip(query) ==
    IF query /= <<>>
    THEN << [ query_string |->
                [ query |-> query, fields |-> <<"status_message">> ] ] >>
    ELSE <<>>

\* lines 101-107: the list must
must_clauses(query) ==
    IF Strip(query) /= <<>>
    THEN << [ query_string |->
                [ query |-> query, fields |-> <<"status_message">> ] ] >>
    ELSE <<>>

\* whether search_posts raises ValueError at line 112 or 114
search_raises(min_likes, max_likes) ==
    \/ min_likes /= <<>> /\ ~int(min_likes).ok
    \/ max_likes /= <<>> /\ ~int(max_likes).ok

\* lines 125-138: the body search_posts sends
search_body(query, min_likes, max_likes, date_from, date_to, k) ==
    LET must == must_clauses(query)
        filter_clauses ==
            likes_filter(min_likes, max_likes) \o date_filter(date_from, date_to)
    IN  [ size |-> k,
          query |-> [ bool |->
              [ must |-> IF must /= <<>> THEN must
                         ELSE << [ match_all |-> <<>> ] >>,
                filter |-> filter_clauses ] ],
          highlight |-> [ fields |-> [ status_message |-> <<>> ] ] ]

\* search_posts up to the sending of the body: the body, or the ValueError
search_query(query, min_likes, max_likes, date_from, date_to, k) ==
    IF search_raises(min_likes, max_likes)
    THEN [ state |-> "raised", body |-> <<>> ]
    ELSE [ state |-> "built",
           body |-> search_body(query, min_likes, max_likes, date_from, date_to, k) ]

\* lines 147-157: the body find_similar sends
similar_body(post_id, k) ==
    [ size |-> k,
      query |-> [ more_like_this |->
          [ fields |-> <<"status_message">>,
            like |-> << [ _index |-> index_name, _id |-> post_id ] >>,
            min_term_freq |-> 1,
            min_doc_freq |-> 1 ] ] ]

\* ------------------------------------------------------------------------
\* The external index: documents, search, more-like-this, bulk, refresh
\* ------------------------------------------------------------------------

Min(S) == CHOOSE x \in S : \A y \in S : x <= y

RECURSIVE Tokens(_)
\* the terms the analyzer makes of a text: its words, lower-cased
Tokens(s) ==
    LET t == LStrip(s)
    IN  IF t = <<>> THEN {}
        ELSE LET ends == { i \in 1..Len(t) : t[i] \in Whitespace }
                 n == IF ends = {} THEN Len(t) + 1 ELSE Min(ends)
             IN  {Lower(SubSeq(t, 1, n - 1))} \cup Tokens(SubSeq(t, n, Len(t)))

\* the terms of a field value (only a text has any)
TextTokens(v) == IF v.t = "str" THEN Tokens(v.s) ELSE {}

\* the score a must clause gives a document, in thousandths; 0: no match
MustScore(doc, clause) ==
    IF "match_all" \in DOMAIN clause THEN 1000
    ELSE 1000 * Cardinality(Tokens(clause.query_string.query)
                            \cap TextTokens(doc.status_message))

InRange(x, r) ==
    /\ "gte" \in DOMAIN r => r["gte"] <= x
    /\ "lte" \in DOMAIN r => x <= r["lte"]

\* whether a document passes a range clause; an absent field never does
FilterOk(doc, clause) ==
    LET r == clause.range
    IN  IF "num_reactions" \in DOMAIN r
        THEN /\ doc.num_reactions.t = "int"
             /\ InRange(doc.num_reactions.n, r.num_reactions)
        ELSE /\ doc.status_published.t = "str"
             /\ int(doc.status_published.s).ok
             /\ InRange(int(doc.status_published.s).n,
                        [ b \in DOMAIN r.status_published |->
                            int(r.status_published[b]).n ])

\* the index answers 400 to a negative size and to a date it cannot parse
BodyAccepted(body) ==
    /\ body.size >= 0
    /\ \A i \in 1..Len(body.query.bool.filter) :
          LET r == body.query.bool.filter[i].range
          IN  "status_published" \in DOMAIN r =>
                \A b \in DOMAIN r.status_published :
                    int(r.status_published[b]).ok

RECURSIVE Ranked(_, _)
\* identifiers by falling score, ties by identifier
Ranked(ids, score) ==
    IF ids = {} THEN <<>>
    ELSE LET best == CHOOSE i \in ids : \A j \in ids :
                        \/ score[i] > score[j]
                        \/ score[i] = score[j] /\ i <= j
         IN  <<best>> \o Ranked(ids \ {best}, score)

FirstK(seq, k) == SubSeq(seq, 1, IF k < Len(seq) THEN k ELSE Len(seq))

\* the highlighted fragment the index returns for a matched text
Highlighted(text) == <<"<em>">> \o text

\* F(e), with e evaluated once
With(e, F(_)) == CHOOSE y \in { F(x) : x \in {e} } : TRUE

\* es.search with the body of search_posts: the hits, over the documents
\* the last refresh made visible
es_search(docs, body) ==
    LET must == body.query.bool.must[1]
        match == { i \in DOMAIN docs :
                     /\ MustScore(docs[i], must) > 0
                     /\ \A c \in 1..Len(body.query.bool.filter) :
                           FilterOk(docs[i], body.query.bool.filter[c]) }
        score == [ i \in match |-> MustScore(docs[i], must) ]
    IN  With(FirstK(Ranked(match, score), body.size),
             LAMBDA order :
               [ p \in 1..Len(order) |->
                   IF "query_string" \in DOMAIN must
                   THEN [ _id |-> order[p],
                          _score |-> MustScore(docs[order[p]], must),
                          _source |-> docs[order[p]],
                          highlight |-> [ status_message |->
                              << Highlighted(docs[order[p]].status_message.s) >> ] ]
                   ELSE [ _id |-> order[p],
                          _score |-> MustScore(docs[order[p]], must),
                          _source |-> docs[order[p]] ] ])

\* the score more_like_this gives a document for the terms of the liked one
LikeScore(doc, terms) == 1000 * Cardinality(terms \cap TextTokens(doc.status_message))

\* es.search with the body of find_similar: the liked document is read from
\* the index as written, the hits from the visible documents
es_more_like_this(written, docs, body) ==
    LET mlt == body.query.more_like_this
        pid == mlt.like[1]._id
        terms == IF pid \in DOMAIN written
                 THEN TextTokens(written[pid].status_message) ELSE {}
        match == { i \in DOMAIN docs :
                     /\ i /= pid
                     /\ LikeScore(docs[i], terms) >= 1000 * mlt.min_term_freq }
        score == [ i \in match |-> LikeScore(docs[i], terms) ]
    IN  With(FirstK(Ranked(match, score), body.size),
             LAMBDA order :
               [ p \in 1..Len(order) |->
                   [ _id |-> order[p],
                     _score |-> LikeScore(docs[order[p]], terms),
                     _source |-> docs[order[p]] ] ])

\* ------------------------------------------------------------------------
\* Calls made by the handlers, and their effect on the index
\* ------------------------------------------------------------------------

Call(op, docs, ign, n, msg, err) ==
    [ op |-> op, docs |-> docs, ign |-> ign, n |-> n, msg |-> msg, err |-> err ]

\* helpers.bulk(es, actions, ignore_status=ign)
Bulk(actions, ign) == Call("bulk", actions, ign, 0, "", "")

\* es.indices.refresh(index=index_name)
Refresh == Call("refresh", <<>>, {}, 0, "", "")

\* messagebox.showinfo / showerror / askyesno
ShowInfo(n, msg) == Call("showinfo", <<>>, {}, n, msg, "")

ShowError(msg) == Call("showerror", <<>>, {}, 0, msg, "")

AskYesNo(msg) == Call("askyesno", <<>>, {}, 0, msg, "")

\* pd.read_csv: the rows read, or the exception the except clause catches
ReadCsv(rows, err) == Call("read_csv", rows, {}, Len(rows), "", err)

Without(f, i) == [ j \in DOMAIN f \ {i} |-> f[j] ]

RECURSIVE ApplyBulk(_, _)
\* the index after the actions of one bulk call, in order: an action with
\* no _op_type indexes its _source under a fresh identifier, a delete
\* removes the document when it is there
ApplyBulk(es, actions) ==
    IF actions = <<>> THEN es
    ELSE LET a == Head(actions)
             next ==
               IF "_op_type" \in DOMAIN a
               THEN [ es EXCEPT !.stored = Without(es.stored, a._id) ]
               ELSE [ es EXCEPT
                        !.stored = (es.nextId :> a._source) @@ es.stored,
                        !.nextId = es.nextId + 1 ]
         IN  ApplyBulk(next, Tail(actions))

\* the statuses the items of a bulk call come back with
BulkStatuses(es, actions) ==
    { IF "_op_type" \in DOMAIN actions[i]
      THEN (IF actions[i]._id \in DOMAIN es.stored THEN 200 ELSE 404)
      ELSE 201 : i \in 1..Len(actions) }

\* one call: the index after it, the event it leaves, whether it raised.
\* fault names the backend call that fails in transport; a bulk call that
\* fails has applied its first `done` actions.
Exec(call, es, fault, done) ==
    CASE call.op = "bulk" ->
           IF fault = "bulk"
           THEN [ es |-> ApplyBulk(es, FirstK(call.docs, done)),
                  ev |-> [ call EXCEPT !.err = "TransportError" ],
                  raised |-> TRUE ]
           ELSE LET bad == { c \in BulkStatuses(es, call.docs) :
                               c >= 300 /\ c \notin call.ign }
                IN  [ es |-> ApplyBulk(es, call.docs),
                      ev |-> [ call EXCEPT !.err =
                                 IF bad = {} THEN "" ELSE "BulkIndexError" ],
                      raised |-> bad /= {} ]
      [] call.op = "refresh" ->
           IF fault = "refresh"
           THEN [ es |-> es, ev |-> [ call EXCEPT !.err = "TransportError" ],
                  raised |-> TRUE ]
           ELSE [ es |-> [ es EXCEPT !.visible = es.stored ], ev |-> call,
                  raised |-> FALSE ]
      [] OTHER -> [ es |-> es, ev |-> call, raised |-> FALSE ]

RECURSIVE RunCalls(_, _, _, _)
\* the calls of a handler in order, up to the first that raises
RunCalls(calls, es, fault, done) ==
    IF calls = <<>> THEN [ es |-> es, trace |-> <<>>, raised |-> FALSE ]
    ELSE LET r == Exec(Head(calls), es, fault, done)
         IN  IF r.raised
             THEN [ es |-> r.es, trace |-> << r.ev >>, raised |-> TRUE ]
             ELSE LET rest == RunCalls(Tail(calls), r.es, fault, done)
                  IN  [ es |-> rest.es, trace |-> << r.ev >> \o rest.trace,
                        raised |-> rest.raised ]

\* ------------------------------------------------------------------------
\* import_posts and delete_posts
\* ------------------------------------------------------------------------

\* lines 84-87 staging the rows as read
staged_actions_raw(rows) ==
    [ i \in 1..Len(rows) |-> [ _index |-> index_name, _source |-> rows[i] ] ]

\* lines 84-87: one action per row, the document cleaned, no identifier
staged_actions(rows) ==
    [ i \in 1..Len(rows) |->
        [ _index |-> index_name, _source |-> clean_document(rows[i]) ] ]

\* import_posts reporting before the refresh
import_posts_report_first(file) ==
    IF ~file.exists THEN << ShowError("CSV file not found") >>
    ELSE IF ~file.parses
    THEN << ReadCsv(<<>>, "ParserError"), ShowError("Cannot read CSV") >>
    ELSE LET actions == staged_actions(file.rows)
         IN  << ReadCsv(file.rows, ""), Bulk(actions, {}),
                ShowInfo(Len(actions), "Imported posts"), Refresh >>

\* import_posts without the return of line 82
import_posts_no_return(file) ==
    IF ~file.exists THEN << ShowError("CSV file not found") >>
    ELSE LET actions == staged_actions(file.rows)
         IN  (IF file.parses THEN << ReadCsv(file.rows, "") >>
              ELSE << ReadCsv(<<>>, "ParserError"), ShowError("Cannot read CSV") >>)
             \o << Bulk(actions, {}), Refresh,
                   ShowInfo(Len(actions), "Imported posts") >>

\* import_posts: the calls it makes for a file
import_posts(file) ==
    IF ~file.exists THEN << ShowError("CSV file not found") >>
    ELSE IF ~file.parses
    THEN << ReadCsv(<<>>, "ParserError"), ShowError("Cannot read CSV") >>
    ELSE LET actions == staged_actions(file.rows)
         IN  << ReadCsv(file.rows, ""), Bulk(actions, {}), Refresh,
                ShowInfo(Len(actions), "Imported posts") >>

delete_actions(ids) ==
    [ i \in 1..Len(ids) |->
        [ _op_type |-> "delete", _index |-> index_name, _id |-> ids[i] ] ]

\* delete_posts without the refresh of line 170
delete_posts_no_refresh(ids) == << Bulk(delete_actions(ids), {404}) >>

\* delete_posts without ignore_status
delete_posts_strict(ids) == << Bulk(delete_actions(ids), {}), Refresh >>

\* delete_posts: the calls it makes
delete_posts(ids) == << Bulk(delete_actions(ids), {404}), Refresh >>

\* ------------------------------------------------------------------------
\* The GUI handlers
\* ------------------------------------------------------------------------

\* the slice of line 256
SnippetLen == 300

NoResp == [ sent |-> FALSE, ok |-> FALSE, hits |-> <<>> ]

NoQuery == [ state |-> "none", body |-> <<>> ]

\* round(score, 2), scores being in thousandths
Round2(score) == ((score + 5) \div 10) * 10

\* line 235: the highlighted fragment, else the raw field value
snippet_of(h) ==
    IF "highlight" \in DOMAIN h /\ "status_message" \in DOMAIN h.highlight
    THEN PyStr(h.highlight.status_message[1])
    ELSE IF "status_message" \in DOMAIN h._source
    THEN h._source.status_message
    ELSE PyStr(<<>>)

\* lines 234-236: one row per hit, keyed by the hit's identifier
search_rows(hits) ==
    [ p \in 1..Len(hits) |->
        [ iid |-> hits[p]._id,
          values |-> << Round2(hits[p]._score), snippet_of(hits[p]) >> ] ]

\* lines 254-256: the rows inserted before a hit whose status_message
\* cannot be sliced raises TypeError
similar_rows(hits) ==
    LET bad == { p \in 1..Len(hits) : hits[p]._source.status_message.t /= "str" }
        n == IF bad = {} THEN Len(hits) ELSE Min(bad) - 1
    IN  [ rows |-> [ p \in 1..n |->
                       [ iid |-> hits[p]._id,
                         values |-> << Round2(hits[p]._score),
                                       PyStr(FirstK(hits[p]._source.status_message.s,
                                                    SnippetLen)) >> ] ],
          raised |-> bad /= {} ]

Failed(tbl, q, sent) ==
    [ table |-> tbl, qry |-> q, raised |-> TRUE,
      resp |-> [ sent |-> sent, ok |-> FALSE, hits |-> <<>> ] ]

\* lines 225-236 for a body that was built: the request is sent and the
\* hits become rows after those of `kept`
send_search(kept, q, docs, fault) ==
    IF q.state = "raised" THEN Failed(kept, q, FALSE)
    ELSE IF fault = "search" \/ ~BodyAccepted(q.body) THEN Failed(kept, q, TRUE)
    ELSE With(es_search(docs, q.body),
              LAMBDA hits :
                [ table |-> kept \o search_rows(hits), qry |-> q, raised |-> FALSE,
                  resp |-> [ sent |-> TRUE, ok |-> TRUE, hits |-> hits ] ])

\* run_search without the results.delete of line 224
run_search_keep_rows(tbl, ent, docs, fault) ==
    IF ~int(ent.top_k).ok THEN Failed(tbl, NoQuery, FALSE)
    ELSE With(search_query(ent.query, ent.min_likes, ent.max_likes,
                           ent.date_from, ent.date_to, int(ent.top_k).n),
              LAMBDA q : send_search(tbl, q, docs, fault))

\* run_search: the table is cleared, top_k converted, the body built and
\* sent, and the hits inserted; each of the last three steps may raise
run_search(tbl, ent, docs, fault) ==
    IF ~int(ent.top_k).ok THEN Failed(<<>>, NoQuery, FALSE)
    ELSE With(search_query(ent.query, ent.min_likes, ent.max_likes,
                           ent.date_from, ent.date_to, int(ent.top_k).n),
              LAMBDA q : send_search(<<>>, q, docs, fault))

\* lines 253-256 for a body: the request is sent and the hits become rows
send_similar(q, written, docs, fault) ==
    IF fault = "search" \/ q.body.size < 0 THEN Failed(<<>>, q, TRUE)
    ELSE With(es_more_like_this(written, docs, q.body),
              LAMBDA hits :
                With(similar_rows(hits),
                     LAMBDA ins :
                       [ table |-> ins.rows, qry |-> q, raised |-> ins.raised,
                         resp |-> [ sent |-> TRUE, ok |-> TRUE, hits |-> hits ] ]))

\* similar_posts from line 252 on, for the first selected row
find_similar_rows(anchor, ent, written, docs, fault) ==
    IF ~int(ent.top_k).ok THEN Failed(<<>>, NoQuery, FALSE)
    ELSE With([ state |-> "similar",
                body |-> similar_body(anchor, int(ent.top_k).n) ],
              LAMBDA q : send_similar(q, written, docs, fault))

\* ------------------------------------------------------------------------
\* State
\* ------------------------------------------------------------------------

VARIABLES
    stored,     \* the index: identifier -> document, as written
    visible,    \* the documents a search sees: the index as of the last refresh
    nextId,     \* the next identifier the index assigns
    table,      \* the rows of the results Treeview, in order
    selection,  \* the identifiers of the selected rows
    entries,    \* the text of the six entry fields
    qry,        \* the request body the last handler built
    resp,       \* the search response the last handler received
    trace,      \* the bulk, refresh and dialog calls of the last handler
    outcome,    \* how the last handler ended
    pre,        \* the identifiers in the index when the last handler began
    removed,    \* the identifiers of the delete_posts calls that returned
    running,    \* the Tk main loop is running
    value,      \* clean_value: the argument
    cleaned     \* clean_value: the result, once applied

vars == << stored, visible, nextId, table, selection, entries, qry, resp,
           trace, outcome, pre, removed, running, value, cleaned >>

backend == << stored, visible, nextId >>

cleaner == << value, cleaned >>

Es == [ stored |-> stored, visible |-> visible, nextId |-> nextId ]

Entries(q, lo, hi, from, to, k) ==
    [ query |-> q, min_likes |-> lo, max_likes |-> hi,
      date_from |-> from, date_to |-> to, top_k |-> k ]

\* lines 189-211: every field empty but Top-K, which holds "10"
DefaultEntries == Entries(<<>>, <<>>, <<>>, <<>>, <<>>, <<"1", "0">>)

NotCleaned == [ done |-> FALSE, result |-> None ]

\* lines 176-260: the window as built, the index as found
Init ==
    /\ stored = <<>>
    /\ visible = <<>>
    /\ nextId = 1
    /\ table = <<>>
    /\ selection = {}
    /\ entries = DefaultEntries
    /\ qry = NoQuery
    /\ resp = NoResp
    /\ trace = <<>>
    /\ outcome = "idle"
    /\ pre = {}
    /\ removed = {}
    /\ running = TRUE
    /\ value = None
    /\ cleaned = NotCleaned

\* ------------------------------------------------------------------------
\* Inputs
\* ------------------------------------------------------------------------

Missing == [ exists |-> FALSE, parses |-> FALSE, rows |-> <<>> ]

Unparsable == [ exists |-> TRUE, parses |-> FALSE, rows |-> <<>> ]

FileOf(rows) == [ exists |-> TRUE, parses |-> TRUE, rows |-> rows ]

Row(m, r, d) == [ status_message |-> m, num_reactions |-> r, status_published |-> d ]

RowCat == Row(PyStr(<<"c", "a", "t">>), PyInt(5), PyStr(<<"2", "0", "2", "0">>))

RowNaN ==
    Row(PyStr(<<"C", "a", "t", " ", "x">>), PyStr(<<"N", "a", "N">>),
        PyStr(<<"2", "0", "2", "1">>))

RowPadded ==
    Row(PyStr(<<" ", "N", "/", "A", " ">>), PyInt(12), PyStr(<<>>))

RowFloats == Row(PyFloat("nan", 0), PyFloat("inf", 0), None)

\* the rows of the files of the import specification
ImportRows == { RowNaN, RowPadded, RowFloats }

\* the files of the import specification
ImportFiles ==
    { Missing, Unparsable } \cup { FileOf(rows) : rows \in SeqsUpTo(ImportRows, MaxRows) }

\* the files the Import button is given in the GUI specification
GuiFiles == { Missing, Unparsable, FileOf(<<RowCat>>), FileOf(<<RowNaN, RowCat>>) }

\* the texts the user puts in the entry fields in the GUI specification
GuiEntries ==
    { DefaultEntries,
      Entries(<<"c", "a", "t">>, <<"9">>, <<>>, <<>>, <<"2", "0", "2", "1">>, <<"1">>),
      Entries(<<>>, <<>>, <<>>, <<>>, <<>>, <<"x">>),
      Entries(<<>>, <<"n", "a">>, <<>>, <<"x">>, <<>>, <<"1", "0">>) }

Faults == { "none", "bulk", "refresh", "search" }

\* ------------------------------------------------------------------------
\* Actions: one per button, plus the user's selecting and typing
\* ------------------------------------------------------------------------

\* the Import CSV button: import_posts(file)
ImportCSV(file, fault, done) ==
    /\ \E r \in { RunCalls(import_posts(file), Es, fault, done) } :
          /\ stored' = r.es.stored
          /\ visible' = r.es.visible
          /\ nextId' = r.es.nextId
          /\ trace' = r.trace
          /\ outcome' = IF r.raised THEN "raised"
                        ELSE IF file.parses THEN "done" ELSE "failed"
    /\ pre' = DOMAIN stored
    /\ qry' = NoQuery
    /\ resp' = NoResp
    /\ UNCHANGED << table, selection, entries, removed, running, cleaner >>

\* the Search button: run_search()
RunSearch(fault) ==
    /\ \E r \in { run_search(table, entries, visible, fault) } :
          /\ table' = r.table
          /\ qry' = r.qry
          /\ resp' = r.resp
          /\ outcome' = IF r.raised THEN "raised" ELSE "done"
    /\ selection' = {}
    /\ trace' = <<>>
    /\ pre' = DOMAIN stored
    /\ UNCHANGED << backend, entries, removed, running, cleaner >>

\* results.selection(): the selected identifiers in the order of the rows
Selected ==
    LET IsSel(row) == row.iid \in selection
        rows == SelectSeq(table, IsSel)
    IN  [ p \in 1..Len(rows) |-> rows[p].iid ]

Range(f) == { f[x] : x \in DOMAIN f }

\* the Delete Selected button: delete_selected()
DeleteSelected(confirm, fault, done) ==
    \E ids \in { Selected } :
        /\ pre' = DOMAIN stored
        /\ IF ids = <<>> \/ ~confirm
           THEN /\ trace' = IF ids = <<>> THEN <<>>
                            ELSE << AskYesNo("Delete selected posts?") >>
                /\ outcome' = "returned"
                /\ qry' = NoQuery
                /\ resp' = NoResp
                /\ UNCHANGED << backend, table, selection, removed >>
           ELSE \E d \in { RunCalls(delete_posts(ids), Es, fault, done) } :
                    /\ stored' = d.es.stored
                    /\ visible' = d.es.visible
                    /\ nextId' = d.es.nextId
                    /\ trace' = << AskYesNo("Delete selected posts?") >> \o d.trace
                    /\ IF d.raised
                       THEN /\ outcome' = "raised"
                            /\ qry' = NoQuery
                            /\ resp' = NoResp
                            /\ UNCHANGED << table, selection, removed >>
                       ELSE \E r \in { run_search(table, entries, d.es.visible, fault) } :
                                /\ removed' = removed \cup Range(ids)
                                /\ table' = r.table
                                /\ selection' = {}
                                /\ qry' = r.qry
                                /\ resp' = r.resp
                                /\ outcome' = IF r.raised THEN "raised" ELSE "done"
        /\ UNCHANGED << entries, running, cleaner >>

\* the Find Similar button: similar_posts()
SimilarPosts(fault) ==
    \E sel \in { Selected } :
        /\ pre' = DOMAIN stored
        /\ trace' = <<>>
        /\ IF sel = <<>>
           THEN /\ outcome' = "returned"
                /\ qry' = NoQuery
                /\ resp' = NoResp
                /\ UNCHANGED << table, selection >>
           ELSE \E r \in { find_similar_rows(sel[1], entries, stored, visible, fault) } :
                    /\ table' = r.table
                    /\ selection' = {}
                    /\ qry' = r.qry
                    /\ resp' = r.resp
                    /\ outcome' = IF r.raised THEN "raised" ELSE "done"
        /\ UNCHANGED << backend, entries, removed, running, cleaner >>

\* a new user event: the record of the previous handler is put away
Forget ==
    /\ qry' = NoQuery
    /\ resp' = NoResp
    /\ trace' = <<>>
    /\ outcome' = "idle"
    /\ pre' = DOMAIN stored

\* the user selects rows of the results table
SelectRows(ids) ==
    /\ ids /= selection
    /\ selection' = ids
    /\ Forget
    /\ UNCHANGED << backend, table, entries, removed, running, cleaner >>

\* the user types in the entry fields
EditEntries(ent) ==
    /\ ent /= entries
    /\ entries' = ent
    /\ Forget
    /\ UNCHANGED << backend, table, selection, removed, running, cleaner >>

\* the index refreshes by itself from time to time
PeriodicRefresh ==
    /\ visible /= stored
    /\ visible' = stored
    /\ UNCHANGED << stored, nextId, table, selection, entries, qry, resp, trace,
                    outcome, pre, removed, running, cleaner >>

\* the faults and partial bulk writes that make a difference to a handler
\* that issues a bulk call of n actions only when `writes`
FaultCases(writes, n, faults) ==
    { c \in faults \X (0..n) :
        /\ c[1] /= "none" => writes
        /\ c[2] /= 0 => c[1] = "bulk" }

ImportStep ==
    \E file \in GuiFiles :
        /\ nextId + Len(file.rows) - 1 <= MaxDocs
        /\ \E c \in FaultCases(file.parses, Len(file.rows), {"none", "bulk", "refresh"}) :
              ImportCSV(file, c[1], c[2])

SearchStep == \E fault \in {"none", "search"} : RunSearch(fault)

DeleteStep ==
    \E confirm \in BOOLEAN :
        \E c \in FaultCases(confirm /\ selection /= {}, Cardinality(selection), Faults) :
            DeleteSelected(confirm, c[1], c[2])

SimilarStep ==
    \E fault \in {"none", "search"} :
        /\ fault /= "none" => selection /= {}
        /\ SimilarPosts(fault)

SelectStep == \E ids \in SUBSET { table[p].iid : p \in 1..Len(table) } : SelectRows(ids)

EditStep == \E ent \in GuiEntries : EditEntries(ent)

Next ==
    \/ ImportStep
    \/ SearchStep
    \/ DeleteStep
    \/ SimilarStep
    \/ SelectStep
    \/ EditStep
    \/ PeriodicRefresh

Spec == Init /\ [][Next]_vars

\* ------------------------------------------------------------------------
\* Import alone: any sequence of import_posts calls
\* ------------------------------------------------------------------------

ImportOnlyStep ==
    \E file \in ImportFiles :
        /\ nextId + Len(file.rows) - 1 <= MaxImported
        /\ \E c \in FaultCases(file.parses, Len(file.rows), {"none", "bulk", "refresh"}) :
              ImportCSV(file, c[1], c[2])

SpecImport == Init /\ [][ImportOnlyStep]_vars

\* ------------------------------------------------------------------------
\* clean_value alone, on every value of Values
\* ------------------------------------------------------------------------

InitClean ==
    /\ Init!1 /\ Init!2 /\ Init!3 /\ Init!4 /\ Init!5 /\ Init!6 /\ Init!7
    /\ Init!8 /\ Init!9 /\ Init!10 /\ Init!11 /\ Init!12 /\ Init!13
    /\ value \in Values
    /\ cleaned = NotCleaned

ApplyClean ==
    /\ ~cleaned.done
    /\ cleaned' = [ done |-> TRUE, result |-> clean_value(value) ]
    /\ UNCHANGED << backend, table, selection, entries, qry, resp, trace,
                    outcome, pre, removed, running, value >>

SpecClean == InitClean /\ [][ApplyClean]_vars

\* ------------------------------------------------------------------------
\* search_posts alone, on every combination of its inputs
\* ------------------------------------------------------------------------

QueryTexts == { <<>>, <<" ">>, <<"c", "a", "t">>, <<" ", "c", "a", "t", " ">> }

LikesTexts == { <<>>, <<"0">>, <<"1", "0">>, <<" ", "5">>, <<"n", "a">> }

DateTexts == { <<>>, <<"2", "0", "2", "0">>, <<" ">>, <<"x">> }

TopKTexts == { <<"1", "0">>, <<"0">> }

AllEntries ==
    { Entries(q, lo, hi, from, to, k) :
        q \in QueryTexts, lo \in LikesTexts, hi \in LikesTexts,
        from \in DateTexts, to \in DateTexts, k \in TopKTexts }

InitQuery ==
    /\ Init!1 /\ Init!2 /\ Init!3 /\ Init!4 /\ Init!5
    /\ entries \in AllEntries
    /\ Init!7 /\ Init!8 /\ Init!9 /\ Init!10 /\ Init!11 /\ Init!12 /\ Init!13
    /\ Init!14 /\ Init!15

\* search_posts up to the sending of the body
BuildQuery ==
    /\ qry.state = "none"
    /\ qry' = search_query(entries.query, entries.min_likes, entries.max_likes,
                            entries.date_from, entries.date_to,
                            int(entries.top_k).n)
    /\ UNCHANGED << backend, table, selection, entries, resp, trace, outcome,
                    pre, removed, running, cleaner >>

SpecQuery == InitQuery /\ [][BuildQuery]_vars

\* ------------------------------------------------------------------------
\* Properties
\* ------------------------------------------------------------------------

\* the words that stand for a missing value
PlaceholderWords ==
    { <<"n", "a", "n">>, <<"n", "u", "l", "l">>, <<"n", "o", "n", "e">>,
      <<"n", "/", "a">>, <<"n", "a">>, <<>> }

\* a text that is one of the words, in any case, between runs of whitespace
IsPlaceholderText(s) ==
    \E i \in 1..Len(s) + 1, j \in 0..Len(s) :
        /\ i <= j + 1
        /\ \A p \in 1..(i - 1) : s[p] \in Whitespace
        /\ \A p \in (j + 1)..Len(s) : s[p] \in Whitespace
        /\ Lower(SubSeq(s, i, j)) \in PlaceholderWords

\* a value that stands for "missing": a placeholder text, NaN or an infinity
IsPlaceholder(v) ==
    \/ v.t = "float" /\ v.f /= "finite"
    \/ v.t = "str" /\ IsPlaceholderText(v.s)

Events(op) == { i \in 1..Len(trace) : trace[i].op = op }

IndexActions(call) == { i \in 1..Len(call.docs) : "_op_type" \notin DOMAIN call.docs[i] }

\* C1: no document submitted to the index, and none the index holds, has a
\* placeholder for "missing" as a field value: in every bulk call of
\* import_posts each staged document has the keys of its row, with None
\* wherever the row holds a placeholder (or None) and the row's value
\* elsewhere.
C1_NoPlaceholderSubmitted ==
    /\ \A id \in DOMAIN stored : \A k \in DOMAIN stored[id] :
          ~IsPlaceholder(stored[id][k])
    /\ \A b \in Events("bulk") : \A r \in Events("read_csv") :
          /\ Len(trace[b].docs) = Len(trace[r].docs)
          /\ \A i \in 1..Len(trace[b].docs) :
                LET doc == trace[b].docs[i]._source
                    row == trace[r].docs[i]
                IN  /\ DOMAIN doc = DOMAIN row
                    /\ \A k \in DOMAIN row :
                          /\ ~IsPlaceholder(doc[k])
                          /\ IsPlaceholder(row[k]) => doc[k] = None
                          /\ ~IsPlaceholder(row[k]) => doc[k] = row[k]

\* C1 witness: the three-row file whose second row holds the text "NaN" has
\* been imported, and the index holds its three documents, the second with
\* None in that field
C1_Witness ==
    /\ outcome = "done"
    /\ Events("read_csv") /= {}
    /\ trace[1].docs = << RowPadded, RowNaN, RowFloats >>
    /\ DOMAIN stored = {1, 2, 3}
    /\ stored[2].num_reactions = None
    /\ stored[2].status_message = RowNaN.status_message

\* C2: clean_value returns None exactly for None, a float NaN or infinity,
\* and a text that is a placeholder word between whitespace in any case;
\* every other value comes back as it was given.
C2_CleanValue ==
    cleaned.done =>
        cleaned.result =
            IF value = None \/ IsPlaceholder(value) THEN None ELSE value

\* C2 witness: a padded upper-case placeholder has been cleaned to None
C2_Witness ==
    /\ cleaned.done
    /\ value = PyStr(<<"\t", "N", "U", "L", "L", " ">>)
    /\ cleaned.result = None

HasShown(op) == Events(op) /= {}

\* C3: every failure of a user-triggered action, handled or raised, shows an
\* error dialog and leaves the interface running.
C3_EveryFailureShowsDialog ==
    /\ outcome \in {"failed", "raised"} => HasShown("showerror")
    /\ running

HitIds(hits) == { hits[p]._id : p \in 1..Len(hits) }

\* C4: once delete_posts has returned for some identifiers, the index shows
\* none of them to a search, and no response received holds one of them.
C4_DeletedNeverReturned ==
    /\ removed \cap DOMAIN visible = {}
    /\ resp.ok => HitIds(resp.hits) \cap removed = {}

\* C4 witness: delete_selected has deleted a document that the search before
\* returned, and its re-run search came back with the hits that are left
C4_Witness ==
    /\ HasShown("bulk")
    /\ outcome = "done"
    /\ resp.ok
    /\ resp.hits /= <<>>
    /\ removed /= {}
    /\ removed \subseteq pre

DeleteCalls == { i \in Events("bulk") : IndexActions(trace[i]) = {} /\ trace[i].docs /= <<>> }

DeletedIds(call) == { call.docs[i]._id : i \in 1..Len(call.docs) }

Supplied(text) == text /= <<>>

\* the number each numeric text of LikesTexts denotes
LikesNumber(text) ==
    CASE text = <<"0">> -> 0
      [] text = <<"1", "0">> -> 10
      [] text = <<" ", "5">> -> 5

Filters == qry.body.query.bool.filter

RangesOn(field) == { i \in 1..Len(Filters) : DOMAIN Filters[i].range = {field} }

\* the keys a range clause must have for a pair of bounds
BoundKeys(low, high) ==
    (IF Supplied(low) THEN {"gte"} ELSE {}) \cup (IF Supplied(high) THEN {"lte"} ELSE {})

\* C6: the filter list of a built query holds range clauses only: one on
\* num_reactions exactly when a likes bound is supplied, one on
\* status_published exactly when a date bound is supplied; each has gte
\* exactly when its lower bound is supplied and lte exactly when its upper
\* bound is, the likes bounds as integers and the date bounds as the texts
\* given; nothing of this depends on the other pair or on the free text.
C6_RangeFilters ==
    qry.state = "built" =>
        /\ \A i \in 1..Len(Filters) : DOMAIN Filters[i] = {"range"}
        /\ RangesOn("num_reactions") \cup RangesOn("status_published") = 1..Len(Filters)
        /\ Cardinality(RangesOn("num_reactions")) =
              IF Supplied(entries.min_likes) \/ Supplied(entries.max_likes) THEN 1 ELSE 0
        /\ Cardinality(RangesOn("status_published")) =
              IF Supplied(entries.date_from) \/ Supplied(entries.date_to) THEN 1 ELSE 0
        /\ \A i \in RangesOn("num_reactions") :
              LET r == Filters[i].range.num_reactions
              IN  /\ DOMAIN r = BoundKeys(entries.min_likes, entries.max_likes)
                  /\ "gte" \in DOMAIN r => r["gte"] = LikesNumber(entries.min_likes)
                  /\ "lte" \in DOMAIN r => r["lte"] = LikesNumber(entries.max_likes)
        /\ \A i \in RangesOn("status_published") :
              LET r == Filters[i].range.status_published
              IN  /\ DOMAIN r = BoundKeys(entries.date_from, entries.date_to)
                  /\ "gte" \in DOMAIN r => r["gte"] = entries.date_from
                  /\ "lte" \in DOMAIN r => r["lte"] = entries.date_to

\* C6 witness: only a minimum of 10 likes is given, and the filter list is
\* one range clause with gte 10 and no lte
C6_Witness ==
    /\ qry.state = "built"
    /\ entries.min_likes = <<"1", "0">>
    /\ entries.max_likes = <<>>
    /\ entries.date_from = <<>>
    /\ entries.date_to = <<>>
    /\ Len(Filters) = 1
    /\ DOMAIN Filters[1].range.num_reactions = {"gte"}
    /\ Filters[1].range.num_reactions["gte"] = 10

NonBlank(text) == \E i \in 1..Len(text) : text[i] \notin Whitespace

Musts == qry.body.query.bool.must

\* C7: the must list of a built query is one clause: the query_string
\* clause on status_message with the text as given when the text is not
\* blank, the match_all clause when it is empty or whitespace; the bounds add
\* nothing to it, and with no bound supplied the filter list is empty.
C7_MustClause ==
    qry.state = "built" =>
        /\ Len(Musts) = 1
        /\ IF NonBlank(entries.query)
           THEN /\ DOMAIN Musts[1] = {"query_string"}
                /\ Musts[1].query_string.query = entries.query
                /\ Musts[1].query_string.fields = <<"status_message">>
           ELSE DOMAIN Musts[1] = {"match_all"}
        /\ ( ~Supplied(entries.min_likes) /\ ~Supplied(entries.max_likes)
             /\ ~Supplied(entries.date_from) /\ ~Supplied(entries.date_to) )
              => Filters = <<>>

\* C7 witness: only a free text is given; the must list is its query_string
\* clause and the filter list is empty
C7_Witness ==
    /\ qry.state = "built"
    /\ entries.query = <<" ", "c", "a", "t", " ">>
    /\ DOMAIN Musts[1] = {"query_string"}
    /\ Filters = <<>>

\* C8: when import_posts reports completion with a count n, its calls were,
\* in order, read_csv, one bulk call of n staged documents without
\* identifiers, one refresh, and the report; n is the number of rows read,
\* and the documents are visible to searches when the report is shown.
C8_ReportAfterRefresh ==
    \A i \in Events("showinfo") :
        /\ Len(trace) = 4
        /\ i = 4
        /\ trace[1].op = "read_csv"
        /\ trace[2].op = "bulk"
        /\ trace[3].op = "refresh"
        /\ \A e \in 1..4 : trace[e].err = ""
        /\ trace[4].n = Len(trace[1].docs)
        /\ trace[4].n = Len(trace[2].docs)
        /\ \A a \in 1..Len(trace[2].docs) :
              DOMAIN trace[2].docs[a] = {"_index", "_source"}
        /\ Cardinality(DOMAIN stored) = Cardinality(pre) + trace[4].n
        /\ visible = stored

\* C8 witness: a three-row file has been imported and reported
C8_Witness ==
    /\ Events("showinfo") = {4}
    /\ trace[4].n = 3
    /\ Cardinality(DOMAIN stored) = 3

\* C9: an import of a missing or unparsable file shows the error, makes no
\* bulk call and no refresh, shows no success report and leaves the index as
\* it was.
C9_FailedImportWritesNothing ==
    [][ outcome' = "failed" =>
          /\ (Events("showerror") /= {})'
          /\ (Events("bulk") = {})'
          /\ (Events("refresh") = {})'
          /\ (Events("showinfo") = {})'
          /\ UNCHANGED backend ]_vars

\* C9 witness: an import has failed while the index held documents
C9_Witness ==
    /\ outcome = "failed"
    /\ HasShown("showerror")
    /\ DOMAIN stored /= {}

RowIds(rows) == [ p \in 1..Len(rows) |-> rows[p].iid ]

HitSeq(hits) == [ p \in 1..Len(hits) |-> hits[p]._id ]

\* C10: when a search, a find-similar or a delete-selected has received its
\* response and completed, the table holds one row per hit of that
\* response, in order, keyed by the hit's identifier, and nothing else; a
\* find-similar with no selection and a delete-selected with no selection or
\* not confirmed leave the table as it was.
C10_TableIsLastResponse ==
    [][ /\ (resp'.ok /\ outcome' = "done") => RowIds(table') = HitSeq(resp'.hits)
        /\ outcome' = "returned" => table' = table ]_vars

\* C10 witness: a find-similar has completed with one hit, which is the one
\* row of the table
C10_Witness ==
    /\ qry.state = "similar"
    /\ resp.ok
    /\ outcome = "done"
    /\ Len(resp.hits) = 1
    /\ Len(table) = 1

====
